---- MODULE Spec2Model ----
(***************************************************************************)
(* Clinical-filter: the rule-based variant filter (VcfInfo.passes_filters  *)
(* and its helpers, vcf_info.py) and the trio loader (load_vcfs.py).       *)
(*                                                                         *)
(* Text is a sequence of one-character strings, so that float(), split(),  *)
(* startswith() and "in" are computed the way Python computes them.        *)
(* A floating point number is fixed point: n + f/Scale with 0 <= f < Scale. *)
(***************************************************************************)
EXTENDS Integers, Sequences, FiniteSets, TLC

VARIABLES
    \* ---- one call of VcfInfo.passes_filters(filters)
    info,        \* self.info: field name -> raw value
    mut,         \* self.get_mutation_id()
    filters,     \* the filters argument: field name -> <<condition, filter_values>>
    epc,         \* position in passes_filters: "idle", "start", "loop", "multi", "done", "raised"
    todo,        \* keys of self.info the for loop has not visited yet
    key,         \* the local variable key (what show_fail would report)
    passes,      \* the local variable passes
    checked,     \* history: the keys a per-field check was applied to
    exc,         \* the exception that left passes_filters, "" if none
    evals,       \* history: 1 in the first call on the record, 2 in the second
    prev,        \* history: what the first call returned
    \* ---- one call of load_trio / combine_trio_variants for one family
    family,      \* the Family: mother / father present, has_parents()
    lpc,         \* position in load_variants: "idle", "child", "mother", "father", "combine", "combined", "returned", "raised"
    nread,       \* lines read so far from the three files together
    line,        \* the line the scan loop handled last
    included,    \* history: what include_variant returned for that line
    kept,        \* history: whether that line's record was appended
    diag,        \* history: whether that line's failure was printed (debug coordinate)
    child_vars,  \* child = open_individual(family.child, ...)
    keys,        \* keys = set([var.get_key() for var in child])
    mother_vars, \* mother = open_individual(family.mother, child_variants=keys)
    father_vars, \* father = open_individual(family.father, child_variants=keys)
    trios,       \* the list combine_trio_variants returns
    pp_filter,   \* the pp_filter argument of load_variants
    variants,    \* the list load_variants returns
    \* ---- load_variants called for two families in one process
    shared,      \* the class attributes load_variants sets: SNV/CNV.known_genes,
                 \* SNV/CNV.debug_chrom, debug_pos, Info.last_base, Info.populations
    calls,       \* per call: its arguments, its position, its locals and what it returned
    \* ---- the three open_individual scans of one family run as three threads
    files,       \* the lines of the child's, the mother's and the father's file
    at,          \* per member: the number of lines its scan has read
    loaded,      \* per member: the list its scan has built so far
    joined,      \* all scans have returned and combine_trio_variants has run
    resolved,    \* the list combine_trio_variants returned
    early,       \* history: a parent's line was read before the child's scan ended
    mixed        \* history: the father's scan read a line before the mother's scan ended

evars == <<info, mut, filters, epc, todo, key, passes, checked, exc, evals, prev>>
pvars == <<shared, calls>>
cvars == <<files, at, loaded, joined, resolved, early, mixed>>
lvars == <<family, lpc, nread, line, included, kept, diag, child_vars, keys, mother_vars, father_vars, trios,
           pp_filter, variants>>
vars == <<info, mut, filters, epc, todo, key, passes, checked, exc, evals, prev,
          family, lpc, nread, line, included, kept, diag, child_vars, keys, mother_vars, father_vars, trios,
          pp_filter, variants, shared, calls,
          files, at, loaded, joined, resolved, early, mixed>>

\* ------------------------------------------------------------------------
\* Bounds of the model
\* ------------------------------------------------------------------------
\* longest generated raw text of a numeric INFO field
MaxLen == 3
\* most lines read from the child's, mother's and father's files together
MaxLines == 3
\* the longest file a scan reads when the three scans run as threads
MaxFile == 2

\* ------------------------------------------------------------------------
\* Python values
\* ------------------------------------------------------------------------
\* fixed point: the number n + f/Scale, n its floor, so 0.005 is (0, 50000),
\* 0.0050001 is (0, 50001) and -0.5 is (-1, 5000000)
FracDigits == 7
Scale == 10000000

Str(s) == [t |-> "str", s |-> s, n |-> 0, f |-> 0]
Num(n, f) == [t |-> "num", s |-> <<>>, n |-> n, f |-> f]
\* a key without "=" in the INFO column holds True (add_info)
Flag == [t |-> "flag", s |-> <<>>, n |-> 0, f |-> 0]
\* info["CQ"] = None (add_consequence)
None == [t |-> "none", s |-> <<>>, n |-> 0, f |-> 0]
\* marks a key that is not in the dict
Absent == [t |-> "absent", s |-> <<>>, n |-> 0, f |-> 0]

\* a <= b and a > b for two numbers
NumLE(a, b) == a.n < b.n \/ (a.n = b.n /\ a.f <= b.f)
NumGT(a, b) == ~NumLE(a, b)

Digits == {"0", "1", "2", "3", "4", "5", "6", "7", "8", "9"}
DigitVal(c) ==
    CASE c = "0" -> 0 [] c = "1" -> 1 [] c = "2" -> 2 [] c = "3" -> 3 [] c = "4" -> 4
      [] c = "5" -> 5 [] c = "6" -> 6 [] c = "7" -> 7 [] c = "8" -> 8 [] c = "9" -> 9

RECURSIVE Pow10(_)
Pow10(k) == IF k <= 0 THEN 1 ELSE 10 * Pow10(k - 1)

\* the value of a sequence of digits, 0 for the empty sequence
RECURSIVE DigitsVal(_)
DigitsVal(s) ==
    IF s = <<>> THEN 0
    ELSE 10 * DigitsVal(SubSeq(s, 1, Len(s) - 1)) + DigitVal(s[Len(s)])

\* the index of the first c in s, 0 if there is none
RECURSIVE IndexOf(_, _, _)
IndexOf(s, c, i) ==
    IF i > Len(s) THEN 0
    ELSE IF s[i] = c THEN i
    ELSE IndexOf(s, c, i + 1)

\* float(text) on the decimal texts of the model's alphabet: [sign] digits [. digits]
\* with at least one digit (".5" and "5." parse, "." "-" "" and "5,0" do not).
\* ok = FALSE is ValueError.
FracVal(fk) == DigitsVal(fk) * Pow10(FracDigits - Len(fk))

ParseParts(ip, fp) ==
    IF /\ \A i \in 1..Len(ip) : ip[i] \in Digits
       /\ \A i \in 1..Len(fp) : fp[i] \in Digits
       /\ Len(ip) + Len(fp) > 0
    THEN [ok |-> TRUE, n |-> DigitsVal(ip),
          f |-> FracVal(IF Len(fp) > FracDigits THEN SubSeq(fp, 1, FracDigits) ELSE fp)]
    ELSE [ok |-> FALSE, n |-> 0, f |-> 0]

ParseAt(s, dot) ==
    IF dot = 0 THEN ParseParts(s, <<>>)
    ELSE ParseParts(SubSeq(s, 1, dot - 1), SubSeq(s, dot + 1, Len(s)))

ParseUnsigned(s) == ParseAt(s, IndexOf(s, ".", 1))

\* the negative of the magnitude r
Negated(r) ==
    IF r.f = 0 THEN [ok |-> r.ok, n |-> 0 - r.n, f |-> 0]
    ELSE [ok |-> r.ok, n |-> 0 - r.n - 1, f |-> Scale - r.f]

ParseSigned(sign, r) == IF sign = "-" /\ r.ok THEN Negated(r) ELSE r

ParseFloat(s) ==
    IF s # <<>> /\ s[1] \in {"-", "+"}
    THEN ParseSigned(s[1], ParseUnsigned(SubSeq(s, 2, Len(s))))
    ELSE ParseUnsigned(s)

\* Python's float(x): a number for a number, 1.0 for True, the parse of a text
\* (r), TypeError for None
FloatOutcome(v, r) ==
    CASE v.t = "num" -> [st |-> "ok", v |-> v]
      [] v.t = "flag" -> [st |-> "ok", v |-> Num(1, 0)]
      [] v.t = "str" -> IF r.ok THEN [st |-> "ok", v |-> Num(r.n, r.f)]
                        ELSE [st |-> "ValueError", v |-> v]
      [] OTHER -> [st |-> "TypeError", v |-> v]

python_float(v) == FloatOutcome(v, ParseFloat(v.s))

\* text.split(sep): the pieces between the separators, never an empty list
RECURSIVE Split(_, _)
SplitAt(s, sep, i) ==
    IF i = 0 THEN <<s>>
    ELSE <<SubSeq(s, 1, i - 1)>> \o Split(SubSeq(s, i + 1, Len(s)), sep)

Split(s, sep) == SplitAt(s, sep, IndexOf(s, sep, 1))

\* sep.join(parts)
RECURSIVE Join(_, _)
Join(parts, sep) ==
    IF parts = <<>> THEN <<>>
    ELSE IF Len(parts) = 1 THEN parts[1]
    ELSE parts[1] \o <<sep>> \o Join(Tail(parts), sep)

\* text.startswith(prefix)
StartsWith(s, prefix) ==
    /\ Len(s) >= Len(prefix)
    /\ SubSeq(s, 1, Len(prefix)) = prefix

\* needle in text, for two texts
IsSubstring(needle, s) ==
    \E i \in 0..(Len(s) - Len(needle)) : SubSeq(s, i + 1, i + Len(needle)) = needle

\* ------------------------------------------------------------------------
\* Named texts
\* ------------------------------------------------------------------------
T_missense == <<"m","i","s","s","e","n","s","e","_","v","a","r","i","a","n","t">>
T_stop == <<"s","t","o","p","_","g","a","i","n","e","d">>
T_benign == <<"b","e","n","i","g","n">>
T_benign01 == <<"b","e","n","i","g","n","(","0",".","1",")">>
T_damaging == <<"p","r","o","b","a","b","l","y","_","d","a","m","a","g","i","n","g">>
T_NA == <<"N","A">>
T_CM == <<"C","M","1">>
T_PASS == <<"P","A","S","S">>
T_LowQual == <<"L","o","w","Q","u","a","l">>

\* tags["MAX_MAF"]: the population fields find_max_allele_frequency searches
MAX_MAF == <<"AF_MAX", "DDD_AF">>

\* ------------------------------------------------------------------------
\* VcfInfo helpers
\* ------------------------------------------------------------------------
\* the for loop of get_number: the first piece that float() accepts; when none
\* does, the loop variable is left holding the last piece, a text
RECURSIVE FirstFloat(_)
FirstFloatStep(parts, f) ==
    IF f.st = "ok" THEN f.v
    ELSE IF Len(parts) = 1 THEN Str(Head(parts))
    ELSE FirstFloat(Tail(parts))

FirstFloat(parts) == FirstFloatStep(parts, python_float(Str(Head(parts))))

\* try: float(values) / except ValueError: the for loop / except: value = values
GetNumberOutcome(values, f) ==
    CASE f.st = "ok" -> f.v
      [] f.st = "ValueError" -> FirstFloat(Split(values.s, ","))
      [] OTHER -> values

get_number(values) == GetNumberOutcome(values, python_float(values))

\* "True", "False", or the exception that float() lets through
IsNumberOutcome(f) ==
    CASE f.st = "ok" -> "True"
      [] f.st = "ValueError" -> "False"
      [] OTHER -> f.st

is_number(value) ==
    IF value.t = "none" THEN "False" ELSE IsNumberOutcome(python_float(value))

DigitChar(d) ==
    CASE d = 0 -> "0" [] d = 1 -> "1" [] d = 2 -> "2" [] d = 3 -> "3" [] d = 4 -> "4"
      [] d = 5 -> "5" [] d = 6 -> "6" [] d = 7 -> "7" [] d = 8 -> "8" [] d = 9 -> "9"

RECURSIVE NatText(_)
NatText(n) == IF n < 10 THEN <<DigitChar(n)>> ELSE NatText(n \div 10) \o <<DigitChar(n % 10)>>

\* the k digits of f, most significant first
RECURSIVE FracText(_, _)
FracText(f, k) == IF k = 0 THEN <<>> ELSE FracText(f \div 10, k - 1) \o <<DigitChar(f % 10)>>

RECURSIVE StripZeros(_)
StripZeros(s) ==
    IF Len(s) > 1 /\ s[Len(s)] = "0" THEN StripZeros(SubSeq(s, 1, Len(s) - 1)) ELSE s

\* str(x) of the magnitude ip + fp/Scale
MagnitudeText(ip, fp) ==
    NatText(ip) \o <<".">> \o StripZeros(FracText(fp, FracDigits))

\* str(x) of a float: sign, integer digits, ".", the fraction without trailing
\* zeros ("0.005", "1.0").  Python prints values below 1e-4 in exponent notation,
\* which float() reads back to the same number; the model prints them positionally.
FormatFloat(v) ==
    IF v.n >= 0 THEN MagnitudeText(v.n, v.f)
    ELSE IF v.f = 0 THEN <<"-">> \o MagnitudeText(0 - v.n, 0)
    ELSE <<"-">> \o MagnitudeText(0 - v.n - 1, Scale - v.f)

\* max_allele_frequency = -100 before the loop
NoFrequency == Num(0 - 100, 0)

\* the body of the for loop of find_max_allele_frequency once number is known
MaxFrequencyWith(number, max) ==
    IF is_number(number) # "True" THEN max
    ELSE IF NumGT(number, max) THEN number
    ELSE max

\* one iteration: the maximum after population k, given the maximum before it
MaxFrequencyStep(inf, k, max) ==
    IF k \notin DOMAIN inf THEN max
    ELSE MaxFrequencyWith(get_number(inf[k]), max)

\* if max_allele_frequency == -100: "NA"; return str(max_allele_frequency)
MaxFrequencyText(max) == IF max = NoFrequency THEN T_NA ELSE FormatFloat(max)

\* the maximum after the first i populations
RECURSIVE MaxFrequencyLoop(_, _, _)
MaxFrequencyLoop(inf, populations, i) ==
    IF i = 0 THEN NoFrequency
    ELSE MaxFrequencyStep(inf, populations[i], MaxFrequencyLoop(inf, populations, i - 1))

find_max_allele_frequency(inf, populations) ==
    MaxFrequencyText(MaxFrequencyLoop(inf, populations, Len(populations)))

\* the allowed set of a "list" rule: None, a list of texts, or (a configuration
\* slip) a bare text or a number
FvNone == [k |-> "none", items |-> {}, s |-> <<>>, n |-> 0, f |-> 0]
FvList(items) == [k |-> "list", items |-> items, s |-> <<>>, n |-> 0, f |-> 0]
FvStr(s) == [k |-> "str", items |-> {}, s |-> s, n |-> 0, f |-> 0]
FvNum(n, f) == [k |-> "num", items |-> {}, s |-> <<>>, n |-> n, f |-> f]

\* value in filter_values
python_in(value, fv) ==
    CASE fv.k = "list" -> IF value.t = "str" /\ value.s \in fv.items THEN "True" ELSE "False"
      [] fv.k = "str" -> IF value.t # "str" THEN "TypeError"
                         ELSE IF IsSubstring(value.s, fv.s) THEN "True" ELSE "False"
      [] OTHER -> "TypeError"

\* passes_list without its "filter_values is None" guard
passes_list_unguarded(value, filter_values) == python_in(value, filter_values)

passes_list(value, filter_values) ==
    IF filter_values.k = "none" THEN "False"
    ELSE python_in(value, filter_values)

\* value > filter_values and value <= filter_values for a numeric bound: a text
\* or None against a number is a TypeError
python_orderable(value, fv) == value.t = "num" /\ fv.k = "num"

\* passes_smaller_than with "value < filter_values" for "value <= filter_values"
SmallerThanOutcome_strict(v, filter_values) ==
    IF ~python_orderable(v, filter_values) THEN "True"
    ELSE IF NumLE(v, filter_values) /\ v # Num(filter_values.n, filter_values.f)
         THEN is_number(v) ELSE "False"

SmallerThanOutcome(v, filter_values) ==
    IF ~python_orderable(v, filter_values) THEN "True"
    ELSE IF NumLE(v, filter_values) THEN is_number(v) ELSE "False"

passes_smaller_than(value, filter_values) ==
    SmallerThanOutcome(get_number(value), filter_values)

\* maf > 0.005 in passes_multiple_filter: 0.005 in units of 1/Scale
MafThreshold == 50000

\* if maf == "NA": maf = 0 / else: maf = float(maf)
MafValue(r) == Num(r.n, r.f)

MafOfText(maftext) == IF maftext = T_NA THEN Num(0, 0) ELSE MafValue(ParseFloat(maftext))

IsMissense(cq) == cq.t = "str" /\ cq.s = T_missense

\* passes_multiple_filter with the benign branch returning True
MultipleFilterOutcome_exempt(inf, mutation_id, missense) ==
    IF missense /\ "PolyPhen" \in DOMAIN inf /\ inf["PolyPhen"].t # "str"
    THEN "AttributeError"
    ELSE IF missense /\ "PolyPhen" \in DOMAIN inf
            /\ StartsWith(inf["PolyPhen"].s, T_benign)
    THEN "True"
    ELSE IF /\ mutation_id = T_NA
            /\ missense
            /\ NumGT(MafOfText(find_max_allele_frequency(inf, MAX_MAF)), Num(0, MafThreshold))
    THEN "False"
    ELSE "True"

\* passes_multiple_filter with "maf >= 0.005" for "maf > 0.005"
MultipleFilterOutcome_ge(inf, mutation_id, missense) ==
    IF missense /\ "PolyPhen" \in DOMAIN inf /\ inf["PolyPhen"].t # "str"
    THEN "AttributeError"
    ELSE IF missense /\ "PolyPhen" \in DOMAIN inf
            /\ StartsWith(inf["PolyPhen"].s, T_benign)
    THEN "False"
    ELSE IF /\ mutation_id = T_NA
            /\ missense
            /\ NumLE(Num(0, MafThreshold), MafOfText(find_max_allele_frequency(inf, MAX_MAF)))
    THEN "False"
    ELSE "True"

MultipleFilterOutcome(inf, mutation_id, missense) ==
    IF missense /\ "PolyPhen" \in DOMAIN inf /\ inf["PolyPhen"].t # "str"
    THEN "AttributeError"
    ELSE IF missense /\ "PolyPhen" \in DOMAIN inf
            /\ StartsWith(inf["PolyPhen"].s, T_benign)
    THEN "False"
    ELSE IF /\ mutation_id = T_NA
            /\ missense
            /\ NumGT(MafOfText(find_max_allele_frequency(inf, MAX_MAF)), Num(0, MafThreshold))
    THEN "False"
    ELSE "True"

passes_multiple_filter(inf, mutation_id) ==
    MultipleFilterOutcome(inf, mutation_id, IsMissense(inf["CQ"]))

\* ------------------------------------------------------------------------
\* Lines, variants and the family (load_vcfs.py)
\* ------------------------------------------------------------------------
\* int(line[1]) of the position column
python_int(s) == DigitsVal(s)

P_1000 == <<"1", "0", "0", "0">>
P_2000 == <<"2", "0", "0", "0">>
PositionTexts == {P_1000, P_2000}

T_DUP == <<"<", "D", "U", "P", ">">>
T_REF == <<"<", "R", "E", "F", ">">>

\* column 4, the comma-separated alternates
AltTexts == {<<"T">>, <<"T", ",", "G">>, T_DUP}
Inheritances == {"paternal", "maternal", "biparental", "unknown"}

\* the PP_DNM values of the sample column
T_085 == <<"0", ".", "8", "5">>
T_09 == <<"0", ".", "9">>
PpValues == {Absent, Str(T_085), Str(T_09)}

\* one tokenized VCF line.  valid says whether construct_variant can build its
\* record (FALSE: it raises ValueError, a genotype that cannot be set); inh is
\* the inheritance class a CNV record of the child reports; gt and pp are the
\* GT and PP_DNM entries of the sample column.
MkLine(pos, alt, flt, valid, inh, gt, pp) ==
    [chrom |-> "2", pos |-> pos, id |-> ".", ref |-> "G", alt |-> alt, qual |-> "50",
     filter |-> flt, info |-> "HGNC=X", valid |-> valid, inh |-> inh,
     gt |-> gt, pp |-> pp]

NoLine == MkLine(<<>>, <<>>, "", FALSE, "", "", Absent)

IsCnvAlt(alt) == alt = T_DUP

\* the variety of lines is at position 1000; 2000 has the plain SNV call, and
\* an invalid line is one that would otherwise pass
PlainLine(l) ==
    /\ l.pos = P_2000 => (l.alt = <<"T">> /\ l.pp = Absent /\ l.gt = "0/1")
    /\ ~l.valid => l.filter = "PASS"

\* the child's lines: PP_DNM comes with the one-allele SNV lines
ChildLines ==
    { l \in { MkLine(p, a, f, v, i, "0/1", pp) :
                p \in PositionTexts, a \in AltTexts, f \in {"PASS", "LowQual"},
                v \in BOOLEAN, i \in Inheritances \cup {"NA"}, pp \in PpValues } :
        /\ IsCnvAlt(l.alt) <=> l.inh # "NA"
        /\ l.pp # Absent => l.alt = <<"T">>
        /\ PlainLine(l) }

\* a parent's lines: a one-allele SNV line is a call or a homozygous reference
ParentLines ==
    { l \in { MkLine(p, a, f, v, "NA", gt, Absent) :
                p \in PositionTexts, a \in AltTexts, f \in {"PASS", "LowQual"},
                v \in BOOLEAN, gt \in {"0/1", "0/0"} } :
        /\ l.gt = "0/0" => l.alt = <<"T">>
        /\ PlainLine(l) }

\* a Variant (SNV or CNV) object.  idx tells the objects apart: the ordinal of a
\* record among those loaded from its file, 0 for a synthesized default.
MkVar(kind, chrom, position, id, ref, alts, qual, flt, inf, fkeys, fsample, gender, inh, idx, pp) ==
    [kind |-> kind, chrom |-> chrom, position |-> position, variant_id |-> id,
     ref_allele |-> ref, alt_alleles |-> alts, qual |-> qual, filter |-> flt,
     info |-> inf, fkeys |-> fkeys, fsample |-> fsample, gender |-> gender,
     inh |-> inh, idx |-> idx, pp |-> pp]

\* mom, dad = None, None
NoVar == MkVar("None", "", 0, "", "", <<>>, "", "", "", "", "", "", "", 0, Absent)

\* Var(chrom, position, id, ref, alts, qual, filter, info, keys, sample, gender):
\* the position text is read with int(), the alternates are split on ","
Var(kind, chrom, pos, id, ref, alts, qual, flt, inf, fkeys, fsample, gender, inh, idx, pp) ==
    MkVar(kind, chrom, python_int(pos), id, ref, Split(alts, ","), qual, flt, inf,
          fkeys, fsample, gender, inh, idx, pp)

\* construct_variant(line, gender, ...): a CNV for a <DUP> line, else an SNV
construct_variant(l, gender, idx) ==
    IF IsCnvAlt(l.alt)
    THEN Var("CNV", l.chrom, l.pos, l.id, l.ref, l.alt, l.qual, l.filter, l.info,
             "INHERITANCE", l.inh, gender, l.inh, idx, l.pp)
    ELSE Var("SNV", l.chrom, l.pos, l.id, l.ref, l.alt, l.qual, l.filter, l.info,
             "GT", l.gt, gender, "NA", idx, l.pp)

is_cnv(var) == var.kind = "CNV"
get_cnv_inheritance(var) == var.inh

\* var.get_key(): (chrom, position), with the allele set for a CNV
get_key(var) ==
    IF is_cnv(var) THEN <<var.chrom, var.position, var.alt_alleles>>
    ELSE <<var.chrom, var.position>>

\* var.passes_filters() of a constructed proband record: the policy's FILTER rule
var_passes_filters(l) == l.filter = "PASS"

\* key = (line[0], int(line[1]))
LineKey(l) == <<l.chrom, python_int(l.pos)>>

\* Person.get_gender() of the mother and of the father
MotherGender == "F"
FatherGender == "M"
ChildGender == "M"
is_male(gender) == gender = "M"
is_female(gender) == gender = "F"

\* include_variant for a parent if it applied the policy as it does for the child
include_parent_line_filtered(l, child_variants) ==
    LineKey(l) \in child_variants /\ var_passes_filters(l)

\* include_variant(line, child_variants, ...) for a parent: child_variants is
\* the key set
include_parent_line(l, child_variants) == LineKey(l) \in child_variants

\* include_variant(line, None, ...) for the proband, once construct_variant
\* has built the record
include_child_line(l) == var_passes_filters(l)

\* the search of get_parental_var without its "not var.is_cnv()"
RECURSIVE FirstMatch_any(_, _, _)
FirstMatch_any(var, parental_vars, i) ==
    IF i > Len(parental_vars) THEN 0
    ELSE IF get_key(var) = get_key(parental_vars[i]) THEN i
    ELSE FirstMatch_any(var, parental_vars, i + 1)

\* the search of get_parental_var returning the last record with the child's key
RECURSIVE FirstMatch_last(_, _, _)
FirstMatch_last(var, parental_vars, i) ==
    IF i > Len(parental_vars) THEN 0
    ELSE IF FirstMatch_last(var, parental_vars, i + 1) > 0
    THEN FirstMatch_last(var, parental_vars, i + 1)
    ELSE IF ~is_cnv(var) /\ get_key(var) = get_key(parental_vars[i]) THEN i
    ELSE 0

\* the first parental record with the child's key, by position in parental_vars
RECURSIVE FirstMatch(_, _, _)
FirstMatch(var, parental_vars, i) ==
    IF i > Len(parental_vars) THEN 0
    ELSE IF ~is_cnv(var) /\ get_key(var) = get_key(parental_vars[i]) THEN i
    ELSE FirstMatch(var, parental_vars, i + 1)

\* the CNV alleles with the two sexes swapped
DefaultCnvAlts_swapped(var, gender) ==
    IF is_female(gender) /\ get_cnv_inheritance(var) \in {"paternal", "biparental"}
    THEN var.alt_alleles
    ELSE IF is_male(gender) /\ get_cnv_inheritance(var) \in {"maternal", "biparental"}
    THEN var.alt_alleles
    ELSE <<T_REF>>

\* the alleles of the default CNV record of a parent
DefaultCnvAlts(var, gender) ==
    IF is_male(gender) /\ get_cnv_inheritance(var) \in {"paternal", "biparental"}
    THEN var.alt_alleles
    ELSE IF is_female(gender) /\ get_cnv_inheritance(var) \in {"maternal", "biparental"}
    THEN var.alt_alleles
    ELSE <<T_REF>>

\* the default variant with the child's alternates left out of the SNV
DefaultVar_noalts(var, gender) ==
    IF is_cnv(var)
    THEN MkVar("CNV", var.chrom, var.position, var.variant_id, var.ref_allele,
               Split(Join(DefaultCnvAlts(var, gender), ","), ","), var.qual, var.filter,
               var.info, "INHERITANCE", "uncertain", gender, "NA", 0, Absent)
    ELSE MkVar("SNV", var.chrom, var.position, var.variant_id, var.ref_allele,
               Split(<<".">>, ","), var.qual, var.filter,
               var.info, "GT", "0/0", gender, "NA", 0, Absent)

\* the default variant get_parental_var creates for the parent
DefaultVar(var, gender) ==
    IF is_cnv(var)
    THEN MkVar("CNV", var.chrom, var.position, var.variant_id, var.ref_allele,
               Split(Join(DefaultCnvAlts(var, gender), ","), ","), var.qual, var.filter,
               var.info, "INHERITANCE", "uncertain", gender, "NA", 0, Absent)
    ELSE MkVar("SNV", var.chrom, var.position, var.variant_id, var.ref_allele,
               Split(Join(var.alt_alleles, ","), ","), var.qual, var.filter,
               var.info, "GT", "0/0", gender, "NA", 0, Absent)

ParentalAt(var, parental_vars, gender, i) ==
    IF i > 0 THEN parental_vars[i] ELSE DefaultVar(var, gender)

\* get_parental_var(var, parental_vars, parent) for a parent that is there
get_parental_var(var, parental_vars, gender) ==
    ParentalAt(var, parental_vars, gender, FirstMatch(var, parental_vars, 1))

\* TrioGenotypes built with the mother's coordinates
TrioGenotypes_of_mother(chrom, position, child, mom, dad) ==
    [chrom |-> mom.chrom, position |-> mom.position, child |-> child,
     mother |-> mom, father |-> dad]

\* TrioGenotypes(child.get_chrom(), child.get_position(), child, mom, dad, ...)
TrioGenotypes(chrom, position, child, mom, dad) ==
    [chrom |-> chrom, position |-> position, child |-> child, mother |-> mom, father |-> dad]

\* one iteration of combine_trio_variants
CombineOne(fam, child, mothers, fathers) ==
    IF fam.has_parents
    THEN TrioGenotypes(child.chrom, child.position, child,
                       get_parental_var(child, mothers, MotherGender),
                       get_parental_var(child, fathers, FatherGender))
    ELSE TrioGenotypes(child.chrom, child.position, child, NoVar, NoVar)

\* get_parental_var dereferences a parent that is None (parent.get_gender(),
\* parent.is_male()): AttributeError
CombineRaises(fam, children) ==
    /\ children # <<>>
    /\ fam.has_parents
    /\ ~(fam.mother /\ fam.father)

\* the genotype of a record is homozygous reference: GT 0/0, or a CNV that is
\* the reference
is_hom_ref(var) ==
    IF is_cnv(var) THEN var.alt_alleles = <<T_REF>> ELSE var.fsample = "0/0"

\* the trio is apparently de novo: it has parents and both are homozygous
\* reference
is_de_novo(trio) ==
    /\ trio.mother # NoVar
    /\ trio.father # NoVar
    /\ is_hom_ref(trio.mother)
    /\ is_hom_ref(trio.father)

\* float(format["PP_DNM"]) >= pp_filter, where the annotation is there
PpAtLeast(f, threshold) == f.st = "ok" /\ NumLE(threshold, f.v)

\* TrioGenotypes.passes_de_novo_checks(pp_filter)
passes_de_novo_checks(trio, threshold) ==
    IF ~is_de_novo(trio) THEN TRUE
    ELSE IF trio.child.pp = Absent THEN FALSE
    ELSE PpAtLeast(python_float(trio.child.pp), threshold)

\* filter_de_novos that returns its argument
filter_de_novos_unfiltered(trio_list, threshold) == trio_list

\* filter_de_novos(variants, pp_filter)
filter_de_novos(trio_list, threshold) ==
    SelectSeq(trio_list, LAMBDA x : passes_de_novo_checks(x, threshold))

\* the pp_filter thresholds load_variants is called with: 0.9 and 0.5
PpFilters == {Num(0, 9 * (Scale \div 10)), Num(0, Scale \div 2)}

\* the Family: which parents it has, and what has_parents() answers.  It is
\* true with both parents and false with none; for a family with one parent
\* both answers are modelled.
Families ==
    { fam \in [mother : BOOLEAN, father : BOOLEAN, has_parents : BOOLEAN] :
        /\ (fam.mother /\ fam.father) => fam.has_parents
        /\ (~fam.mother /\ ~fam.father) => ~fam.has_parents }

\* the loader's variables while an evaluation is modelled
LoadIdle ==
    /\ family = [mother |-> FALSE, father |-> FALSE, has_parents |-> FALSE]
    /\ lpc = "idle"
    /\ nread = 0
    /\ line = NoLine
    /\ included = FALSE
    /\ kept = FALSE
    /\ diag = FALSE
    /\ child_vars = <<>>
    /\ keys = {}
    /\ mother_vars = <<>>
    /\ father_vars = <<>>
    /\ trios = <<>>
    /\ pp_filter = Num(0, 0)
    /\ variants = <<>>

\* the attributes of the variant classes before any load_variants call
ClassDefaults ==
    [known_genes |-> {}, debug_chrom |-> "None", debug_pos |-> 0,
     last_base |-> {}, populations |-> <<>>]

\* a call of load_variants that is not modelled
IdleCall ==
    [pc |-> "idle", args |-> ClassDefaults, file |-> <<>>, child |-> <<>>,
     trios |-> <<>>, variants |-> <<>>]

\* the class attributes and the calls while one call is modelled on its own
ParIdle ==
    /\ shared = ClassDefaults
    /\ calls = <<IdleCall, IdleCall>>

\* the scans' variables while they are not run as threads
ConcIdle ==
    /\ files = [child |-> <<>>, mother |-> <<>>, father |-> <<>>]
    /\ at = [child |-> 0, mother |-> 0, father |-> 0]
    /\ loaded = [child |-> <<>>, mother |-> <<>>, father |-> <<>>]
    /\ joined = FALSE
    /\ resolved = <<>>
    /\ early = FALSE
    /\ mixed = FALSE

\* ------------------------------------------------------------------------
\* VcfInfo.passes_filters, one step per loop iteration
\* ------------------------------------------------------------------------
\* the key passes_filters reports when the compound rule rejects
MultipleFilterKey == "multiplefilter:cq=missense,mutation!=NA,maf>0.005"

\* the for loop without its break
loop_never_breaks(p) == FALSE

\* the for loop with "if passes == True: break"
loop_break_inverted(p) == p = TRUE

\* if passes == False: break
loop_break(p) == p = FALSE

\* passes = True, and the for loop starts over the keys of self.info
Start ==
    /\ epc = "start"
    /\ epc' = "loop"
    /\ passes' = TRUE
    /\ todo' = DOMAIN info
    /\ UNCHANGED <<info, mut, filters, key, checked, exc>>
    /\ UNCHANGED <<evals, prev>>
    /\ UNCHANGED lvars
    /\ UNCHANGED pvars
    /\ UNCHANGED cvars

\* if key not in filters: continue
SkipKey ==
    /\ epc = "loop"
    /\ \E k \in todo :
        /\ k \notin DOMAIN filters
        /\ key' = k
        /\ todo' = todo \ {k}
    /\ UNCHANGED <<info, mut, filters, epc, passes, checked, exc>>
    /\ UNCHANGED <<evals, prev>>
    /\ UNCHANGED lvars
    /\ UNCHANGED pvars
    /\ UNCHANGED cvars

\* the rest of one iteration, given the outcome r of the per-field check
AfterCheck(k, r) ==
    /\ key' = k
    /\ checked' = Append(checked, k)
    /\ IF r \notin {"True", "False"}
       THEN /\ epc' = "raised"
            /\ exc' = r
            /\ UNCHANGED <<passes, todo>>
       ELSE /\ passes' = (r = "True")
            /\ exc' = exc
            /\ todo' = todo \ {k}
            /\ epc' = IF loop_break(r = "True") THEN "multi" ELSE "loop"
    /\ UNCHANGED <<info, mut, filters>>
    /\ UNCHANGED <<evals, prev>>
    /\ UNCHANGED lvars
    /\ UNCHANGED pvars
    /\ UNCHANGED cvars

\* condition == "list"
CheckList ==
    /\ epc = "loop"
    /\ \E k \in todo :
        /\ k \in DOMAIN filters
        /\ filters[k].cond = "list"
        /\ AfterCheck(k, passes_list(info[k], filters[k].fv))

\* condition == "smaller_than"
CheckSmallerThan ==
    /\ epc = "loop"
    /\ \E k \in todo :
        /\ k \in DOMAIN filters
        /\ filters[k].cond = "smaller_than"
        /\ AfterCheck(k, passes_smaller_than(info[k], filters[k].fv))

\* any other condition: no check is made and passes keeps its value
CheckOther ==
    /\ epc = "loop"
    /\ \E k \in todo :
        /\ k \in DOMAIN filters
        /\ filters[k].cond \notin {"list", "smaller_than"}
        /\ key' = k
        /\ todo' = todo \ {k}
        /\ epc' = IF loop_break(passes) THEN "multi" ELSE "loop"
    /\ UNCHANGED <<info, mut, filters, passes, checked, exc>>
    /\ UNCHANGED <<evals, prev>>
    /\ UNCHANGED lvars
    /\ UNCHANGED pvars
    /\ UNCHANGED cvars

\* the for loop runs out of keys
LoopEnd ==
    /\ epc = "loop"
    /\ todo = {}
    /\ epc' = "multi"
    /\ UNCHANGED <<info, mut, filters, todo, key, passes, checked, exc>>
    /\ UNCHANGED <<evals, prev>>
    /\ UNCHANGED lvars
    /\ UNCHANGED pvars
    /\ UNCHANGED cvars

\* if passes and not self.passes_multiple_filter(): ...; return passes
AfterMultiple(r) ==
    IF ~passes
    THEN /\ epc' = "done"
         /\ UNCHANGED <<key, passes, exc>>
    ELSE IF r \notin {"True", "False"}
    THEN /\ epc' = "raised"
         /\ exc' = r
         /\ UNCHANGED <<key, passes>>
    ELSE IF r = "False"
    THEN /\ epc' = "done"
         /\ key' = MultipleFilterKey
         /\ passes' = FALSE
         /\ exc' = exc
    ELSE /\ epc' = "done"
         /\ UNCHANGED <<key, passes, exc>>

MultipleFilter ==
    /\ epc = "multi"
    /\ AfterMultiple(passes_multiple_filter(info, mut))
    /\ UNCHANGED <<info, mut, filters, todo, checked>>
    /\ UNCHANGED <<evals, prev>>
    /\ UNCHANGED lvars
    /\ UNCHANGED pvars
    /\ UNCHANGED cvars

\* passes_filters returned, and is called once more on the same record with
\* the same filters
Reevaluate ==
    /\ epc = "done"
    /\ evals = 1
    /\ evals' = 2
    /\ prev' = passes
    /\ epc' = "start"
    /\ todo' = {}
    /\ key' = ""
    /\ passes' = TRUE
    /\ checked' = <<>>
    /\ exc' = ""
    /\ UNCHANGED <<info, mut, filters>>
    /\ UNCHANGED lvars
    /\ UNCHANGED pvars
    /\ UNCHANGED cvars

NextEval ==
    \/ Start
    \/ SkipKey
    \/ CheckList
    \/ CheckSmallerThan
    \/ CheckOther
    \/ LoopEnd
    \/ MultipleFilter
    \/ Reevaluate

\* ------------------------------------------------------------------------
\* The records and policies the evaluation is run on
\* ------------------------------------------------------------------------
\* the info dict add_info builds: FILTER and CQ are always there
MkInfo(f, c, p, a, d) ==
    [k \in {"FILTER", "CQ"}
           \cup (IF p = Absent THEN {} ELSE {"PolyPhen"})
           \cup (IF a = Absent THEN {} ELSE {"AF_MAX"})
           \cup (IF d = Absent THEN {} ELSE {"DDD_AF"})
       |-> CASE k = "FILTER" -> f [] k = "CQ" -> c [] k = "PolyPhen" -> p
             [] k = "AF_MAX" -> a [] k = "DDD_AF" -> d]

Rule(c, fv) == [cond |-> c, fv |-> fv]
NoRule == Rule("", FvNone)

MkFilters(f, c, a, d) ==
    [k \in (IF f = NoRule THEN {} ELSE {"FILTER"})
           \cup (IF c = NoRule THEN {} ELSE {"CQ"})
           \cup (IF a = NoRule THEN {} ELSE {"AF_MAX"})
           \cup (IF d = NoRule THEN {} ELSE {"DDD_AF"})
       |-> CASE k = "FILTER" -> f [] k = "CQ" -> c [] k = "AF_MAX" -> a [] k = "DDD_AF" -> d]

EvalStart ==
    /\ epc = "start"
    /\ todo = {}
    /\ key = ""
    /\ passes = TRUE
    /\ checked = <<>>
    /\ exc = ""
    /\ evals = 1
    /\ prev = TRUE

\* the frequencies of the scenarios, an unparseable one and a flag
ScenarioRaw ==
    { Str(<<"0",".","0","1">>), Str(<<"0",".","0","0","5","0","0","0","1">>),
      Str(<<"0",".","0","0","5">>), Str(<<"0",".","0","0","1">>) }

\* the allowed sets of the FILTER rule: a list, None, the empty list, a bare
\* text and a number
FilterRules ==
    { NoRule, Rule("list", FvList({T_PASS})), Rule("list", FvNone),
      Rule("list", FvList({})), Rule("list", FvStr(T_PASS)), Rule("list", FvNum(1, 0)) }

InitEval ==
    /\ info \in { MkInfo(f, c, p, a, d) :
                    f \in {Str(T_PASS), Str(T_LowQual)},
                    c \in {Str(T_missense), Str(T_stop), None},
                    p \in {Absent, Str(T_benign01), Str(T_damaging), Flag},
                    a \in {Absent} \cup ScenarioRaw,
                    d \in {Absent, Str(<<"0",".","0","1">>)} }
    /\ mut \in {T_NA, T_CM}
    /\ filters \in { MkFilters(f, c, a, d) :
                    f \in FilterRules,
                    c \in {Rule("list", FvList({T_missense, T_stop}))},
                    a \in {NoRule, Rule("smaller_than", FvNum(0, Scale \div 2))},
                    d \in {Rule("greater_than", FvNum(0, 0))} }
    /\ EvalStart
    /\ LoadIdle
    /\ ParIdle
    /\ ConcIdle

SpecEval == InitEval /\ [][NextEval]_vars

\* the characters generated raw texts are made of
Alphabet == {"0", "5", ".", ",", "-"}

RECURSIVE TextsUpTo(_)
TextsUpTo(n) ==
    IF n = 0 THEN {<<>>}
    ELSE LET shorter == TextsUpTo(n - 1)
         IN  shorter \cup {Append(s, c) : s \in shorter, c \in Alphabet}

\* every raw value the numeric field is tried with
NumRaw ==
    {Str(s) : s \in TextsUpTo(MaxLen)} \cup ScenarioRaw
      \cup { Flag, Str(<<".",",",".">>),
             Str(<<".",",","0",".","6","3","9","8","6","0">>),
             Str(<<"-","5","0","0">>) }

\* the bounds the numeric rule is tried with: 0, 0.005, 0.5, 5
NumBounds == {FvNum(0, 0), FvNum(0, MafThreshold), FvNum(0, Scale \div 2), FvNum(5, 0)}

InitNum ==
    /\ info \in { MkInfo(Str(T_PASS), c, Absent, a, d) :
                    c \in {Str(T_missense), None}, a \in NumRaw,
                    d \in {Absent, Str(<<"0",".","0","1">>)} }
    /\ mut = T_NA
    /\ filters \in { MkFilters(Rule("list", FvList({T_PASS})), NoRule,
                               Rule("smaller_than", b),
                               Rule("greater_than", FvNum(0, 0))) : b \in NumBounds }
    /\ EvalStart
    /\ LoadIdle
    /\ ParIdle
    /\ ConcIdle

SpecNum == InitNum /\ [][NextEval]_vars

\* ------------------------------------------------------------------------
\* load_trio: the three files are read, then the trio entries are combined
\* ------------------------------------------------------------------------
\* the evaluator's variables while a load is modelled
EvalIdle ==
    /\ info = MkInfo(Str(T_PASS), None, Absent, Absent, Absent)
    /\ mut = T_NA
    /\ filters = MkFilters(NoRule, NoRule, NoRule, NoRule)
    /\ epc = "idle"
    /\ todo = {}
    /\ key = ""
    /\ passes = TRUE
    /\ checked = <<>>
    /\ exc = ""
    /\ evals = 1
    /\ prev = TRUE

Init ==
    /\ family \in Families
    /\ lpc = "child"
    /\ nread = 0
    /\ line = NoLine
    /\ included = FALSE
    /\ kept = FALSE
    /\ diag = FALSE
    /\ child_vars = <<>>
    /\ keys = {}
    /\ mother_vars = <<>>
    /\ father_vars = <<>>
    /\ trios = <<>>
    /\ pp_filter \in PpFilters
    /\ variants = <<>>
    /\ EvalIdle
    /\ ParIdle
    /\ ConcIdle

\* SNV.debug_chrom, SNV.debug_pos as load_variants sets them
debug_chrom == "2"
debug_pos == 1000

\* line[0] == SNV.debug_chrom and int(line[1]) == SNV.debug_pos
at_debug(l) == l.chrom = debug_chrom /\ python_int(l.pos) = debug_pos

\* open_individual without its "except ValueError"
on_value_error_uncaught(pc) == "raised"

\* except ValueError: ... continue
on_value_error(pc) == pc

\* one iteration of the for loop of open_individual over the child's lines
ChildLine ==
    /\ lpc = "child"
    /\ nread < MaxLines
    /\ \E l \in ChildLines :
        /\ line' = l
        /\ included' = (l.valid /\ include_child_line(l))
        /\ kept' = included'
        /\ diag' = (~l.valid /\ at_debug(l))
        /\ lpc' = IF ~l.valid THEN on_value_error(lpc) ELSE lpc
        /\ child_vars' = IF included'
                         THEN Append(child_vars,
                                     construct_variant(l, ChildGender, Len(child_vars) + 1))
                         ELSE child_vars
    /\ nread' = nread + 1
    /\ UNCHANGED <<family, keys, mother_vars, father_vars, trios, pp_filter, variants>>
    /\ UNCHANGED evars
    /\ UNCHANGED pvars
    /\ UNCHANGED cvars

\* the child's file ends: keys = set([var.get_key() for var in child])
ChildDone ==
    /\ lpc = "child"
    /\ lpc' = "mother"
    /\ keys' = {get_key(child_vars[i]) : i \in 1..Len(child_vars)}
    /\ line' = NoLine
    /\ included' = FALSE
    /\ kept' = FALSE
    /\ diag' = FALSE
    /\ UNCHANGED <<family, nread, child_vars, mother_vars, father_vars, trios, pp_filter, variants>>
    /\ UNCHANGED evars
    /\ UNCHANGED pvars
    /\ UNCHANGED cvars

\* one iteration of the for loop of open_individual over a parent's lines
ScanParentLine(l) ==
    /\ line' = l
    /\ included' = include_parent_line(l, keys)
    /\ kept' = (included' /\ l.valid)
    /\ diag' = (included' /\ ~l.valid /\ at_debug(l))
    /\ lpc' = IF included' /\ ~l.valid THEN on_value_error(lpc) ELSE lpc
    /\ nread' = nread + 1

\* the parent's records after line l, given those before it
ParentVarsAfter(l, parental_vars, gender) ==
    IF include_parent_line(l, keys) /\ l.valid
    THEN Append(parental_vars, construct_variant(l, gender, Len(parental_vars) + 1))
    ELSE parental_vars

MotherLine ==
    /\ lpc = "mother"
    /\ family.mother
    /\ nread < MaxLines
    /\ \E l \in ParentLines :
        /\ ScanParentLine(l)
        /\ mother_vars' = ParentVarsAfter(l, mother_vars, MotherGender)
    /\ UNCHANGED <<family, child_vars, keys, father_vars, trios, pp_filter, variants>>
    /\ UNCHANGED evars
    /\ UNCHANGED pvars
    /\ UNCHANGED cvars

\* the mother's file ends, or family.mother is None and [] is returned
MotherDone ==
    /\ lpc = "mother"
    /\ lpc' = "father"
    /\ line' = NoLine
    /\ included' = FALSE
    /\ kept' = FALSE
    /\ diag' = FALSE
    /\ UNCHANGED <<family, nread, child_vars, keys, mother_vars, father_vars, trios, pp_filter, variants>>
    /\ UNCHANGED evars
    /\ UNCHANGED pvars
    /\ UNCHANGED cvars

FatherLine ==
    /\ lpc = "father"
    /\ family.father
    /\ nread < MaxLines
    /\ \E l \in ParentLines :
        /\ ScanParentLine(l)
        /\ father_vars' = ParentVarsAfter(l, father_vars, FatherGender)
    /\ UNCHANGED <<family, child_vars, keys, mother_vars, trios, pp_filter, variants>>
    /\ UNCHANGED evars
    /\ UNCHANGED pvars
    /\ UNCHANGED cvars

\* the father's file ends, or family.father is None and [] is returned
FatherDone ==
    /\ lpc = "father"
    /\ lpc' = "combine"
    /\ line' = NoLine
    /\ included' = FALSE
    /\ kept' = FALSE
    /\ diag' = FALSE
    /\ UNCHANGED <<family, nread, child_vars, keys, mother_vars, father_vars, trios, pp_filter, variants>>
    /\ UNCHANGED evars
    /\ UNCHANGED pvars
    /\ UNCHANGED cvars

\* combine_trio_variants(family, child, mother, father)
CombineTrioVariants ==
    /\ lpc = "combine"
    /\ IF CombineRaises(family, child_vars)
       THEN /\ lpc' = "raised"
            /\ trios' = trios
       ELSE /\ lpc' = "combined"
            /\ trios' = [i \in 1..Len(child_vars) |->
                            CombineOne(family, child_vars[i], mother_vars, father_vars)]
    /\ UNCHANGED <<family, nread, line, included, kept, diag, child_vars, keys, mother_vars, father_vars, pp_filter, variants>>
    /\ UNCHANGED evars
    /\ UNCHANGED pvars
    /\ UNCHANGED cvars

\* load_variants returns filter_de_novos(variants, pp_filter)
FilterDeNovos ==
    /\ lpc = "combined"
    /\ lpc' = "returned"
    /\ variants' = filter_de_novos(trios, pp_filter)
    /\ UNCHANGED <<family, nread, line, included, kept, diag, child_vars, keys, mother_vars, father_vars,
                   trios, pp_filter>>
    /\ UNCHANGED evars
    /\ UNCHANGED pvars
    /\ UNCHANGED cvars

Next ==
    \/ ChildLine
    \/ ChildDone
    \/ MotherLine
    \/ MotherDone
    \/ FatherLine
    \/ FatherDone
    \/ CombineTrioVariants
    \/ FilterDeNovos

Spec == Init /\ [][Next]_vars

\* ------------------------------------------------------------------------
\* load_variants called for two families by two threads of one process
\* ------------------------------------------------------------------------
Calls == {1, 2}

\* the known_genes, debug_chrom, debug_pos, last_base and pops arguments of a
\* call ("None", 0 is debug_chrom=None, debug_pos=None)
CallArgs ==
    { [known_genes |-> g, debug_chrom |-> d[1], debug_pos |-> d[2],
       last_base |-> {}, populations |-> MAX_MAF] :
        g \in {{}, {"ARID1B"}},
        d \in {<<"None", 0>>, <<debug_chrom, debug_pos>>, <<debug_chrom, 2000>>} }

\* the proband's file: one line that int() and the genotype parser accept
ProbandFiles ==
    { <<l>> : l \in { c \in ChildLines : c.valid /\ ~IsCnvAlt(c.alt) /\ c.pp = Absent } }

\* the families have no parents: family.has_parents() is false
Singleton == [mother |-> FALSE, father |-> FALSE, has_parents |-> FALSE]

\* open_individual(family.child, ...): the for loop over the lines of the file
RECURSIVE open_individual(_, _)
open_individual(lines, acc) ==
    IF lines = <<>> THEN acc
    ELSE open_individual(Tail(lines),
            IF Head(lines).valid /\ include_child_line(Head(lines))
            THEN Append(acc, construct_variant(Head(lines), ChildGender, Len(acc) + 1))
            ELSE acc)

\* TrioGenotypes(..., child, mom, dad, SNV.debug_chrom, SNV.debug_pos): the
\* trio entry keeps the debug coordinate it is constructed with
with_debug(trio, chrom, pos) ==
    [chrom |-> trio.chrom, position |-> trio.position, child |-> trio.child,
     mother |-> trio.mother, father |-> trio.father,
     debug_chrom |-> chrom, debug_pos |-> pos]

\* combine_trio_variants for a family without parents, the class attributes
\* being cls when the entries are constructed
combine_trio_variants(children, cls) ==
    [i \in 1..Len(children) |->
        with_debug(CombineOne(Singleton, children[i], <<>>, <<>>),
                   cls.debug_chrom, cls.debug_pos)]

InitPar ==
    /\ shared = ClassDefaults
    /\ calls \in [Calls -> { [pc |-> "setup", args |-> a, file |-> f, child |-> <<>>,
                              trios |-> <<>>, variants |-> <<>>] :
                              a \in CallArgs, f \in ProbandFiles }]
    /\ EvalIdle /\ LoadIdle /\ ConcIdle

\* Var.set_known_genes, Var.set_debug, Info.set_last_base_sites,
\* Info.set_populations: the call writes its arguments to the classes
SetUp(p) ==
    /\ calls[p].pc = "setup"
    /\ shared' = calls[p].args
    /\ calls' = [calls EXCEPT ![p].pc = "load"]
    /\ UNCHANGED evars
    /\ UNCHANGED lvars
    /\ UNCHANGED cvars

\* load_trio: child = open_individual(family.child, ...)
LoadChild(p) ==
    /\ calls[p].pc = "load"
    /\ calls' = [calls EXCEPT ![p].pc = "combine",
                              ![p].child = open_individual(calls[p].file, <<>>)]
    /\ UNCHANGED shared
    /\ UNCHANGED evars
    /\ UNCHANGED lvars
    /\ UNCHANGED cvars

\* load_trio: return combine_trio_variants(family, child, mother, father)
CombineCall(p) ==
    /\ calls[p].pc = "combine"
    /\ calls' = [calls EXCEPT ![p].pc = "filter",
                              ![p].trios = combine_trio_variants(calls[p].child, shared)]
    /\ UNCHANGED shared
    /\ UNCHANGED evars
    /\ UNCHANGED lvars
    /\ UNCHANGED cvars

\* return filter_de_novos(variants, pp_filter)
ReturnCall(p) ==
    /\ calls[p].pc = "filter"
    /\ calls' = [calls EXCEPT ![p].pc = "returned",
                              ![p].variants = filter_de_novos(calls[p].trios,
                                                              Num(0, 9 * (Scale \div 10)))]
    /\ UNCHANGED shared
    /\ UNCHANGED evars
    /\ UNCHANGED lvars
    /\ UNCHANGED cvars

NextPar ==
    \/ \E p \in Calls : SetUp(p)
    \/ \E p \in Calls : LoadChild(p)
    \/ \E p \in Calls : CombineCall(p)
    \/ \E p \in Calls : ReturnCall(p)

SpecPar == InitPar /\ [][NextPar]_vars

\* ------------------------------------------------------------------------
\* load_trio with its three open_individual calls run as three threads that
\* are joined before combine_trio_variants
\* ------------------------------------------------------------------------
RECURSIVE FilesUpTo(_, _)
FilesUpTo(lines, n) ==
    IF n = 0 THEN {<<>>}
    ELSE LET shorter == FilesUpTo(lines, n - 1)
         IN  shorter \cup {Append(f, l) : f \in shorter, l \in lines}

\* the files hold passing one-allele SNV calls at the two positions
ConcChildLines ==
    { c \in ChildLines : c.valid /\ c.alt = <<"T">> /\ c.pp = Absent /\ c.filter = "PASS" }
ConcParentLines ==
    { c \in ParentLines : c.valid /\ c.alt = <<"T">> /\ c.gt = "0/1" /\ c.filter = "PASS" }

\* a family with both parents
BothParents == [mother |-> TRUE, father |-> TRUE, has_parents |-> TRUE]

\* keys = set([var.get_key() for var in child]), of only the first record
child_keys_first(children) ==
    {get_key(children[i]) : i \in 1..(IF Len(children) > 0 THEN 1 ELSE 0)}

\* keys = set([var.get_key() for var in child])
child_keys(children) ==
    {get_key(children[i]) : i \in 1..Len(children)}

InitConc ==
    /\ files \in [child : FilesUpTo(ConcChildLines, MaxFile),
                   mother : FilesUpTo(ConcParentLines, MaxFile),
                   father : FilesUpTo(ConcParentLines, MaxFile)]
    /\ at = [child |-> 0, mother |-> 0, father |-> 0]
    /\ loaded = [child |-> <<>>, mother |-> <<>>, father |-> <<>>]
    /\ joined = FALSE
    /\ resolved = <<>>
    /\ early = FALSE
    /\ mixed = FALSE
    /\ EvalIdle /\ LoadIdle /\ ParIdle

\* one iteration of the for loop of open_individual(family.child, ...)
ChildScanLine ==
    /\ ~joined
    /\ at.child < Len(files.child)
    /\ LET l == files.child[at.child + 1]
       IN  loaded' = [loaded EXCEPT !.child =
                        IF l.valid /\ include_child_line(l)
                        THEN Append(@, construct_variant(l, ChildGender, Len(@) + 1))
                        ELSE @]
    /\ at' = [at EXCEPT !.child = @ + 1]
    /\ UNCHANGED <<files, joined, resolved, early, mixed>>
    /\ UNCHANGED evars
    /\ UNCHANGED lvars
    /\ UNCHANGED pvars

\* one iteration of the for loop of open_individual(parent, child_variants=keys),
\* keys being those of the records the child's scan has built by now
ParentScanLine(member, gender) ==
    /\ ~joined
    /\ at[member] < Len(files[member])
    /\ LET l == files[member][at[member] + 1]
       IN  loaded' = [loaded EXCEPT ![member] =
                        IF include_parent_line(l, child_keys(loaded.child)) /\ l.valid
                        THEN Append(@, construct_variant(l, gender, Len(@) + 1))
                        ELSE @]
    /\ at' = [at EXCEPT ![member] = @ + 1]
    /\ early' = (early \/ at.child < Len(files.child))
    /\ UNCHANGED <<files, joined, resolved>>
    /\ UNCHANGED evars
    /\ UNCHANGED lvars
    /\ UNCHANGED pvars

MotherScanLine ==
    /\ ParentScanLine("mother", MotherGender)
    /\ UNCHANGED mixed

FatherScanLine ==
    /\ ParentScanLine("father", FatherGender)
    /\ mixed' = (mixed \/ at.mother < Len(files.mother))

\* the three scans have returned: combine_trio_variants(family, child, mother, father)
JoinAndCombine ==
    /\ ~joined
    /\ at.child = Len(files.child)
    /\ at.mother = Len(files.mother)
    /\ at.father = Len(files.father)
    /\ joined' = TRUE
    /\ resolved' = [i \in 1..Len(loaded.child) |->
                       CombineOne(BothParents, loaded.child[i], loaded.mother, loaded.father)]
    /\ UNCHANGED <<files, at, loaded, early, mixed>>
    /\ UNCHANGED evars
    /\ UNCHANGED lvars
    /\ UNCHANGED pvars

NextConc ==
    \/ ChildScanLine
    \/ MotherScanLine
    \/ FatherScanLine
    \/ JoinAndCombine

SpecConc == InitConc /\ [][NextConc]_vars

\* ------------------------------------------------------------------------
\* What the specification says of a record, stated without the code's loops
\* ------------------------------------------------------------------------
Missense(inf) == inf["CQ"].t = "str" /\ inf["CQ"].s = T_missense

\* a benign-prediction PolyPhen annotation is present
HasBenign(inf) ==
    /\ "PolyPhen" \in DOMAIN inf
    /\ inf["PolyPhen"].t = "str"
    /\ StartsWith(inf["PolyPhen"].s, T_benign)

\* the PolyPhen entry, when there is one, is a text
PolyPhenIsText(inf) == "PolyPhen" \in DOMAIN inf => inf["PolyPhen"].t = "str"

Parses(s) == ParseFloat(s).ok
ParsedNum(s) == Num(ParseFloat(s).n, ParseFloat(s).f)

\* the numeric coercion rule: the direct parse, else the first comma-separated
\* element that parses; the empty set when coercion fails
Coerced(v) ==
    CASE v.t = "num" -> {v}
      [] v.t = "flag" -> {Num(1, 0)}
      [] v.t = "str" ->
            IF Parses(v.s) THEN {ParsedNum(v.s)}
            ELSE LET parts == Split(v.s, ",")
                 IN  { ParsedNum(parts[i]) : i \in
                         { j \in 1..Len(parts) :
                             Parses(parts[j]) /\ \A h \in 1..(j - 1) : ~Parses(parts[h]) } }
      [] OTHER -> {}

\* the maximum population frequency over the configured populations is > 0.005
FrequencyExceeds(inf) ==
    \E i \in 1..Len(MAX_MAF) :
        /\ MAX_MAF[i] \in DOMAIN inf
        /\ \E x \in Coerced(inf[MAX_MAF[i]]) : NumGT(x, Num(0, MafThreshold))

\* every per-field check passed, and passes_filters returned
CompoundRan == epc = "done" /\ (passes \/ key = MultipleFilterKey)
CompoundRejected == epc = "done" /\ key = MultipleFilterKey

\* C1 as claimed: once every per-field check has passed, the compound rule
\* rejects exactly when the exemption (missense and a benign prediction) is
\* false and (mutation id NA, missense, maximum frequency > 0.005) holds; a
\* missense record with a benign prediction is never rejected by it.
C1_ExemptionAsClaimed ==
    CompoundRan =>
        (CompoundRejected <=>
            /\ ~(Missense(info) /\ HasBenign(info))
            /\ mut = T_NA /\ Missense(info) /\ FrequencyExceeds(info))

\* C1 amended: once every per-field check has passed and the evaluation returns,
\* the compound rule rejects exactly when (missense and a PolyPhen text starting
\* "benign" is present) or (mutation id NA, missense, maximum frequency > 0.005);
\* a missense record with a benign prediction is always rejected by it.
C1_BenignRejected ==
    CompoundRan =>
        (CompoundRejected <=>
            \/ Missense(info) /\ HasBenign(info)
            \/ mut = T_NA /\ Missense(info) /\ FrequencyExceeds(info))

\* a missense record with a benign prediction and a known mutation id, rejected
\* by the compound rule
C1_Witness ==
    /\ CompoundRejected
    /\ Missense(info) /\ HasBenign(info)
    /\ mut = T_CM
    /\ ~FrequencyExceeds(info)

F_001 == Str(<<"0",".","0","1">>)
F_0050001 == Str(<<"0",".","0","0","5","0","0","0","1">>)
F_005 == Str(<<"0",".","0","0","5">>)
F_0001 == Str(<<"0",".","0","0","1">>)

OnlyAfMax(raw) ==
    /\ "AF_MAX" \in DOMAIN info
    /\ info["AF_MAX"] = raw
    /\ "DDD_AF" \notin DOMAIN info

\* C2: a missense record with mutation id NA, no benign prediction and no failed
\* per-field rule is rejected if and only if its maximum population frequency is
\* strictly above 0.005: 0.01 and 0.0050001 are rejected, 0.005 and 0.001 accepted.
C2_FrequencyBoundary ==
    (/\ CompoundRan
     /\ Missense(info) /\ mut = T_NA
     /\ PolyPhenIsText(info) /\ ~HasBenign(info))
    => /\ ~passes <=> FrequencyExceeds(info)
       /\ OnlyAfMax(F_001) => ~passes
       /\ OnlyAfMax(F_0050001) => ~passes
       /\ OnlyAfMax(F_005) => passes
       /\ OnlyAfMax(F_0001) => passes

\* the frequency is exactly 0.005 and the record is accepted
C2_Witness ==
    /\ CompoundRan
    /\ Missense(info) /\ mut = T_NA
    /\ "PolyPhen" \notin DOMAIN info
    /\ OnlyAfMax(F_005)
    /\ passes

\* a per-field check raised: the compound rule raises AttributeError only, the
\* per-field checks TypeError only
CheckRaised == epc = "raised" /\ exc = "TypeError"

\* the for loop handled key k last and applied its rule to it
LastChecked(k) ==
    /\ key = k
    /\ checked # <<>>
    /\ checked[Len(checked)] = k

\* C3: under a smaller_than rule a value that cannot be coerced to a number
\* satisfies the rule whatever the bound, any other value satisfies it if and
\* only if the coerced number is <= the bound, and no value raises an error.
C3_SmallerThan ==
    (LastChecked("AF_MAX") /\ filters["AF_MAX"].cond = "smaller_than")
    => /\ ~CheckRaised
       /\ passes <=> \/ Coerced(info["AF_MAX"]) = {}
                     \/ \E x \in Coerced(info["AF_MAX"]) : NumLE(x, filters["AF_MAX"].fv)

\* ".,0.639860" is coerced to 0.63986 through its second element and fails the
\* bound 0.5
C3_Witness ==
    /\ LastChecked("AF_MAX")
    /\ info["AF_MAX"] = Str(<<".",",","0",".","6","3","9","8","6","0">>)
    /\ filters["AF_MAX"] = Rule("smaller_than", FvNum(0, Scale \div 2))
    /\ epc = "multi"
    /\ ~passes

ListRuleChecked(k) ==
    /\ LastChecked(k)
    /\ filters[k].cond = "list"

FieldOutcome(k) ==
    CASE filters[k].cond = "list" -> passes_list(info[k], filters[k].fv)
      [] filters[k].cond = "smaller_than" -> passes_smaller_than(info[k], filters[k].fv)
      [] OTHER -> "True"

InBoth == DOMAIN info \cap DOMAIN filters

\* C5: evaluate returns true if and only if every field in both the record and
\* the policy satisfies its check and the compound rule passes; checks are
\* applied only to fields in both maps; no check follows a failed one, and the
\* result is then false; the verdict is a function of the record and the
\* policy alone, whatever the order of the visits.
C5_Verdict ==
    /\ epc = "done" =>
          (passes <=> /\ \A k \in InBoth : FieldOutcome(k) = "True"
                      /\ passes_multiple_filter(info, mut) = "True")
    /\ \A i \in 1..Len(checked) : checked[i] \in InBoth
    /\ \A i \in 1..(Len(checked) - 1) : FieldOutcome(checked[i]) = "True"
    /\ (checked # <<>> /\ FieldOutcome(checked[Len(checked)]) = "False")
          => (epc \in {"multi", "done"} /\ ~passes)

\* the first check failed and evaluation returned false with other policy
\* fields of the record left unchecked
C5_Witness ==
    /\ epc = "done"
    /\ ~passes
    /\ Len(checked) = 1
    /\ Cardinality(InBoth) >= 3
    /\ key = checked[1]

\* ------------------------------------------------------------------------
\* What the specification says of a loaded family
\* ------------------------------------------------------------------------
\* a line of a parent's file has just been handled
ParentScanned == lpc \in {"mother", "father"} /\ line # NoLine

\* the keys of the proband's accepted records
ProbandKeys == {get_key(child_vars[i]) : i \in 1..Len(child_vars)}

\* the records loaded so far from the file being scanned
ScannedVars == IF lpc = "mother" THEN mother_vars ELSE father_vars

KeysInProband(parental_vars) ==
    \A i \in 1..Len(parental_vars) :
        <<parental_vars[i].chrom, parental_vars[i].position>> \in ProbandKeys

\* C6: a parent's line is accepted if and only if its (chromosome, position)
\* key is in the proband's accepted-key set, whatever its own filter status;
\* an accepted line whose record can be constructed is retained, with its own
\* filter status, and no record is ever retained whose key matches no accepted
\* proband call.
C6_ParentByKey ==
    /\ ParentScanned =>
          /\ included <=> (<<line.chrom, python_int(line.pos)>> \in ProbandKeys)
          /\ line.valid => (kept <=> included)
          /\ kept => /\ ScannedVars # <<>>
                     /\ ScannedVars[Len(ScannedVars)].filter = line.filter
                     /\ ScannedVars[Len(ScannedVars)].position = python_int(line.pos)
    /\ KeysInProband(mother_vars)
    /\ KeysInProband(father_vars)

\* a mother's line that fails the FILTER rule was retained because its key
\* matches an accepted proband call
C6_Witness ==
    /\ lpc = "mother"
    /\ line # NoLine
    /\ line.filter = "LowQual"
    /\ kept
    /\ mother_vars # <<>>
    /\ mother_vars[Len(mother_vars)].filter = "LowQual"

\* the family was combined and has parents
WithParents == lpc = "combined" /\ family.has_parents

NoEqualKey(child, parental_vars) ==
    \A j \in 1..Len(parental_vars) : get_key(parental_vars[j]) # get_key(child)

HomRefOf(child, gender, slot) ==
    /\ slot.kind = "SNV"
    /\ slot.fkeys = "GT"
    /\ slot.fsample = "0/0"
    /\ slot.chrom = child.chrom
    /\ slot.position = child.position
    /\ slot.variant_id = child.variant_id
    /\ slot.ref_allele = child.ref_allele
    /\ slot.alt_alleles = child.alt_alleles
    /\ slot.gender = gender
    /\ slot.idx = 0

\* C7: for every accepted non-CNV proband record in a family with parents, a
\* parent whose loaded records hold no record with an equal key gets a
\* synthesized record with GT = 0/0, the child's chromosome, position,
\* identifier, reference and alternate alleles, and the parent's sex.
C7_HomRefDefault ==
    WithParents =>
        \A i \in 1..Len(trios) :
            /\ trios[i].child = child_vars[i]
            /\ trios[i].child.kind = "SNV" =>
                  /\ NoEqualKey(trios[i].child, mother_vars)
                        => HomRefOf(trios[i].child, "F", trios[i].mother)
                  /\ NoEqualKey(trios[i].child, father_vars)
                        => HomRefOf(trios[i].child, "M", trios[i].father)

\* a two-allele proband variant at (2, 1000), nothing loaded for the mother,
\* and a homozygous-reference mother record at (2, 1000)
C7_Witness ==
    /\ WithParents
    /\ mother_vars = <<>>
    /\ \E i \in 1..Len(trios) :
          /\ trios[i].child.kind = "SNV"
          /\ trios[i].child.chrom = "2"
          /\ trios[i].child.position = 1000
          /\ trios[i].child.alt_alleles = <<(<<"T">>), (<<"G">>)>>
          /\ trios[i].mother.fsample = "0/0"
          /\ trios[i].mother.position = 1000
          /\ trios[i].mother.alt_alleles = <<(<<"T">>), (<<"G">>)>>

ExpectedCnvAlts(child, gender) ==
    IF \/ gender = "M" /\ child.inh \in {"paternal", "biparental"}
       \/ gender = "F" /\ child.inh \in {"maternal", "biparental"}
    THEN child.alt_alleles
    ELSE <<T_REF>>

CnvDefaultOf(child, gender, slot) ==
    /\ slot.alt_alleles = ExpectedCnvAlts(child, gender)
    /\ slot.fkeys = "INHERITANCE"
    /\ slot.fsample = "uncertain"
    /\ slot.fkeys # "GT"
    /\ slot.gender = gender

\* C8: for every CNV proband record in a family with parents, the synthesized
\* record of a parent carries the child's alternate alleles if the parent is
\* male and the class is paternal or biparental, or female and the class is
\* maternal or biparental, and <REF> otherwise; with class maternal the father
\* never carries them and the mother does; the format is INHERITANCE =
\* uncertain, never a genotype.
C8_CnvDefault ==
    WithParents =>
        \A i \in 1..Len(trios) :
            trios[i].child.kind = "CNV" =>
                /\ CnvDefaultOf(trios[i].child, "F", trios[i].mother)
                /\ CnvDefaultOf(trios[i].child, "M", trios[i].father)
                /\ trios[i].child.inh = "maternal" =>
                      /\ trios[i].father.alt_alleles # trios[i].child.alt_alleles
                      /\ trios[i].mother.alt_alleles = trios[i].child.alt_alleles

\* a maternal CNV: the mother carries <DUP>, the father <REF>
C8_Witness ==
    /\ WithParents
    /\ \E i \in 1..Len(trios) :
          /\ trios[i].child.kind = "CNV"
          /\ trios[i].child.inh = "maternal"
          /\ trios[i].mother.alt_alleles = <<T_DUP>>
          /\ trios[i].father.alt_alleles = <<T_REF>>
          /\ trios[i].father.fsample = "uncertain"

Loaded(slot, parental_vars) ==
    \E j \in 1..Len(parental_vars) : parental_vars[j] = slot

\* C9: for every CNV proband record in a family with parents the mother and
\* father slots are synthesized defaults, never a record loaded from the
\* parent's file, even when a loaded record has the child's key.
C9_CnvNeverMatched ==
    WithParents =>
        \A i \in 1..Len(trios) :
            trios[i].child.kind = "CNV" =>
                /\ trios[i].mother.idx = 0
                /\ trios[i].father.idx = 0
                /\ ~Loaded(trios[i].mother, mother_vars)
                /\ ~Loaded(trios[i].father, father_vars)

\* the mother's loaded records hold one with the key of a CNV of the child,
\* and the mother slot is a default all the same
C9_Witness ==
    /\ WithParents
    /\ \E i \in 1..Len(trios) :
          /\ trios[i].child.kind = "CNV"
          /\ \E j \in 1..Len(mother_vars) :
                get_key(mother_vars[j]) = get_key(trios[i].child)
          /\ trios[i].mother.idx = 0
          /\ trios[i].mother.fsample = "uncertain"

\* C10 as claimed: in every trio entry a parent slot is absent exactly when the
\* family lacks that parent (both for a singleton, only the missing one for a
\* duo, none for a full trio), and combining never raises.
C10_AbsentIffLacking ==
    /\ lpc # "raised"
    /\ lpc = "combined" =>
          \A i \in 1..Len(trios) :
              /\ (trios[i].mother = NoVar) <=> ~family.mother
              /\ (trios[i].father = NoVar) <=> ~family.father

\* the list load_variants returned holds the trio entry
Returned(trio) == \E j \in 1..Len(variants) : variants[j] = trio

\* the genotype of a parent's record is homozygous reference
HomRefGenotype(slot) ==
    \/ slot.kind = "SNV" /\ slot.fkeys = "GT" /\ slot.fsample = "0/0"
    \/ slot.kind = "CNV" /\ slot.alt_alleles = <<T_REF>>

\* the child's de novo probability is absent or below the threshold
ProbabilityFails(child, threshold) ==
    \/ child.pp = Absent
    \/ child.pp.t = "str" /\ Parses(child.pp.s) /\ NumGT(threshold, ParsedNum(child.pp.s))

LineStep == nread' = nread + 1

\* C12: a line whose record cannot be constructed is dropped and the scan
\* continues: the step that reads it leaves the records of all three
\* individuals as they were and the scan where it was, whether or not the line
\* is at the debug coordinate, so the records returned are those of the line
\* sequence with the invalid lines deleted.
C12_InvalidDropped ==
    [][(LineStep /\ ~line'.valid) =>
          /\ child_vars' = child_vars
          /\ mother_vars' = mother_vars
          /\ father_vars' = father_vars
          /\ keys' = keys
          /\ lpc' = lpc
          /\ ~kept']_vars

\* after a record of the mother was loaded, a line at the debug coordinate that
\* matched a proband key could not be constructed: it was reported and
\* dropped, and the mother's scan goes on
C12_Witness ==
    /\ lpc = "mother"
    /\ line # NoLine
    /\ ~line.valid
    /\ included
    /\ diag
    /\ ~kept
    /\ Len(mother_vars) = 1

\* C14: two evaluations of the same field values under the same policy return
\* the same verdict, a record that passed passes again (and the second call
\* returns), and no step of an evaluation changes the record's info map, its
\* mutation id or the policy.
C14_Pure ==
    /\ []((evals = 2 /\ epc = "done") => (passes = prev))
    /\ []((evals = 2 /\ prev) => (epc # "raised" /\ (epc = "done" => passes)))
    /\ [][info' = info /\ mut' = mut /\ filters' = filters]_vars

\* a record passed, was evaluated again with at least two per-field checks,
\* and passed again
C14_Witness ==
    /\ evals = 2
    /\ epc = "done"
    /\ prev
    /\ passes
    /\ Len(checked) >= 2

\* the positions of the parent's loaded records whose key is the child's
EqualKeyAt(child, parental_vars) ==
    {j \in 1..Len(parental_vars) : get_key(parental_vars[j]) = get_key(child)}

SlotByKey(child, slot, parental_vars) ==
    /\ Loaded(slot, parental_vars) <=> EqualKeyAt(child, parental_vars) # {}
    /\ EqualKeyAt(child, parental_vars) # {} =>
          /\ \E j \in EqualKeyAt(child, parental_vars) :
                /\ slot = parental_vars[j]
                /\ \A k \in EqualKeyAt(child, parental_vars) : j <= k
    /\ slot.idx = 0 <=> EqualKeyAt(child, parental_vars) = {}

\* C16: for every accepted non-CNV proband record in a family with parents, a
\* parent's slot is a record loaded from that parent's lines if and only if
\* the parent's loaded records hold one with the child's key; it is then the
\* first of them in file order; a default is synthesized only when there is
\* none.
C16_FirstMatch ==
    WithParents =>
        \A i \in 1..Len(trios) :
            trios[i].child.kind = "SNV" =>
                /\ SlotByKey(trios[i].child, trios[i].mother, mother_vars)
                /\ SlotByKey(trios[i].child, trios[i].father, father_vars)

\* two of the mother's loaded records have the child's key, with different
\* alleles, and the mother slot is the first
C16_Witness ==
    /\ WithParents
    /\ Len(mother_vars) = 2
    /\ mother_vars[1].alt_alleles # mother_vars[2].alt_alleles
    /\ \E i \in 1..Len(trios) :
          /\ trios[i].child.kind = "SNV"
          /\ EqualKeyAt(trios[i].child, mother_vars) = {1, 2}
          /\ trios[i].mother = mother_vars[1]
          /\ trios[i].father.idx = 0

\* C18: combine_trio_variants makes exactly one trio entry per accepted proband
\* record, in the proband's file order and with the child's chromosome and
\* position; the list load_variants returns is an order-preserving
\* subsequence of it (entries are deleted, never added, duplicated or
\* reordered); and every entry is of a record the proband's scan accepted.
C18_Subsequence ==
    /\ lpc \in {"combined", "returned"} =>
          /\ Len(trios) = Len(child_vars)
          /\ \A i \in 1..Len(trios) :
                /\ trios[i].child = child_vars[i]
                /\ trios[i].chrom = child_vars[i].chrom
                /\ trios[i].position = child_vars[i].position
    /\ \A i \in 1..Len(child_vars) :
          /\ child_vars[i].idx = i
          /\ child_vars[i].filter = "PASS"
    /\ lpc = "returned" =>
          /\ \A j \in 1..Len(variants) : \E i \in 1..Len(trios) : variants[j] = trios[i]
          /\ \A j, k \in 1..Len(variants) :
                j < k => variants[j].child.idx < variants[k].child.idx
    /\ lpc # "returned" => variants = <<>>

\* of three trio entries the de novo filter deleted the second and returned
\* the first and the third, in that order
C18_Witness ==
    /\ lpc = "returned"
    /\ Len(trios) = 3
    /\ variants = <<trios[1], trios[3]>>

\* the numbers the configured population fields of the record coerce to
PopulationNumbers(inf) ==
    UNION { Coerced(inf[MAX_MAF[i]]) : i \in {j \in 1..Len(MAX_MAF) : MAX_MAF[j] \in DOMAIN inf} }

\* the compound rule asked for the maximum frequency of the record
FrequencyAsked ==
    /\ CompoundRan
    /\ mut = T_NA
    /\ Missense(info)
    /\ ~HasBenign(info)
    /\ PolyPhenIsText(info)

\* maxtext is the largest of the numbers, or NA exactly when there is none
LargestOrNA(maxtext, numbers) ==
    /\ (maxtext = T_NA) <=> (numbers = {})
    /\ numbers # {} =>
          /\ Parses(maxtext)
          /\ ParsedNum(maxtext) \in numbers
          /\ \A x \in numbers : NumLE(x, ParsedNum(maxtext))

\* C17 as claimed: the aggregation returns the largest number the configured
\* population fields present in the record coerce to, skipping the fields
\* whose coercion fails; it returns NA if and only if no such field has a
\* numeric value, and the compound rule then takes the frequency as zero.
C17_LargestOrNA ==
    FrequencyAsked =>
        /\ LargestOrNA(find_max_allele_frequency(info, MAX_MAF), PopulationNumbers(info))
        /\ PopulationNumbers(info) = {} => passes

\* what load_variants returns for the family of call c when no other call
\* runs: the entries carry the call's own debug coordinate
AloneVariants(c) ==
    filter_de_novos(combine_trio_variants(open_individual(c.file, <<>>), c.args),
                    Num(0, 9 * (Scale \div 10)))

\* C13: for every interleaving of the steps of two concurrent load_variants
\* calls, what each call returns for its family equals what processing that
\* family alone returns: no step of one call writes state the other reads.
C13_ParallelAsAlone ==
    \A p \in Calls :
        calls[p].pc = "returned" => calls[p].variants = AloneVariants(calls[p])

\* the lines of a parent's file that the scans run one after another keep:
\* those whose chromosome and position are those of a record of the
\* completed proband scan
SequentialParent(file, children, gender) ==
    LET kept_lines == SelectSeq(file, LAMBDA l :
                          \E i \in 1..Len(children) :
                              /\ l.chrom = children[i].chrom
                              /\ python_int(l.pos) = children[i].position)
    IN  [i \in 1..Len(kept_lines) |-> construct_variant(kept_lines[i], gender, i)]

\* what load_trio builds when the scans run one after another
SequentialLoaded ==
    LET children == open_individual(files.child, <<>>)
    IN  [child |-> children,
         mother |-> SequentialParent(files.mother, children, MotherGender),
         father |-> SequentialParent(files.father, children, FatherGender)]

SequentialResolved ==
    LET seq == SequentialLoaded
    IN  [i \in 1..Len(seq.child) |->
            CombineOne(BothParents, seq.child[i], seq.mother, seq.father)]

AsSequential == loaded = SequentialLoaded /\ resolved = SequentialResolved

\* C15 as stated: for every interleaving of the three scans, joined before
\* the combination, each member's records and the trio entries are those of
\* the scans run one after another.
C15_AnyInterleaving == joined => AsSequential

\* C15 amended: when no parent's line is read before the proband's scan has
\* ended, every interleaving of the mother's and the father's scan gives
\* each member's records and the trio entries of the scans run one after
\* another.
C15_ParentsAfterProband == (joined /\ ~early) => AsSequential

\* C15 witness: the parents' scans were interleaved after the proband's scan,
\* each kept a record and the mother's scan dropped a line.
C15_Witness ==
    /\ joined /\ ~early /\ mixed
    /\ Len(loaded.child) > 0
    /\ Len(loaded.father) > 0
    /\ Len(loaded.mother) > 0
    /\ Len(loaded.mother) < Len(files.mother)

====
